---- MODULE Spec2Model ----
(***************************************************************************)
(* The fitness-tracker module homework.py as a state machine.              *)
(*                                                                         *)
(* Spec     drives the module's interface: read_package on any package of  *)
(*          the bounded input sets, then any sequence of calls of          *)
(*          get_distance, get_mean_speed, get_spent_calories,              *)
(*          show_training_info, get_message and main on the training.      *)
(* SpecMain is the script under  if __name__ == '__main__'  : the loop     *)
(*          over a list of packages (the literal of the source is one of   *)
(*          the lists).                                                    *)
(*                                                                         *)
(* Numbers.  The source computes in Python floats from integer sensor      *)
(* data.  A float is modelled as the exact rational <<n, d>>, d > 0, in    *)
(* lowest terms; rounding errors of the binary representation are not      *)
(* modelled.  An uncaught Python exception ends the run: pc = "raised"     *)
(* and err holds the exception's name.                                     *)
(***************************************************************************)
EXTENDS Integers, Sequences, FiniteSets, TLC

VARIABLES
    pc,         \* "start" | "ready" | "loop" | "done" | "raised"
    pkg,        \* workout_type and data of the last read_package call
    training,   \* the Training object read_package returned, or NoTraining
    ret,        \* the value each get_* method returned last, if it was called
    info,       \* the InfoMessage show_training_info returned, or NoInfo
    message,    \* the string get_message returned, or NoMessage
    stdout,     \* the lines printed so far
    err,        \* the uncaught exception, or "none"
    packages,   \* the list the script iterates over (SpecMain)
    i           \* the position of the script's loop in packages (SpecMain)

vars == <<pc, pkg, training, ret, info, message, stdout, err, packages, i>>

---------------------------------------------------------------------------
(* Bounds of the input sets *)

MaxDuration == 2

MaxData == 5

MaxPackages == 3

---------------------------------------------------------------------------
(* Float arithmetic, as exact rationals *)

Abs(x) == IF x < 0 THEN -x ELSE x

RECURSIVE GCD(_, _)
GCD(a, b) == IF b = 0 THEN a ELSE GCD(b, a % b)

\* n / d in lowest terms with a positive denominator (d # 0)
Rat(n, d) ==
    LET g == GCD(Abs(n), Abs(d))
        s == IF d < 0 THEN -1 ELSE 1
    IN  <<(s * n) \div g, (s * d) \div g>>

FromInt(n) == <<n, 1>>

RatMul(x, y) ==
    LET g1 == GCD(Abs(x[1]), y[2])
        g2 == GCD(Abs(y[1]), x[2])
    IN  Rat((x[1] \div g1) * (y[1] \div g2), (x[2] \div g2) * (y[2] \div g1))

\* x / y for y # 0; the callers raise ZeroDivisionError before dividing by 0
RatDiv(x, y) == RatMul(x, Rat(y[2], y[1]))

RatAdd(x, y) ==
    LET g == GCD(x[2], y[2])
    IN  Rat(x[1] * (y[2] \div g) + y[1] * (x[2] \div g), (x[2] \div g) * y[2])

RatSub(x, y) == RatAdd(x, <<-y[1], y[2]>>)

RatNonNeg(x) == x[1] >= 0

\* "{:.3f}".format(x): x in thousandths, rounded to the nearest (ties to even)
Format3(x) ==
    LET a  == Abs(x[1])
        q  == a \div x[2]
        r0 == a % x[2]
        d1 == (r0 * 10) \div x[2]
        r1 == (r0 * 10) % x[2]
        d2 == (r1 * 10) \div x[2]
        r2 == (r1 * 10) % x[2]
        d3 == (r2 * 10) \div x[2]
        r3 == (r2 * 10) % x[2]
        up == IF 2 * r3 > x[2] \/ (2 * r3 = x[2] /\ d3 % 2 = 1) THEN 1 ELSE 0
        m  == q * 1000 + d1 * 100 + d2 * 10 + d3 + up
    IN  IF x[1] < 0 THEN -m ELSE m

---------------------------------------------------------------------------
(* Program constants *)

M_IN_KM == 1000

\* Training.LEN_STEP, overridden by Swimming.LEN_STEP
LEN_STEP(cls) == IF cls = "Swimming" THEN Rat(138, 100) ELSE Rat(65, 100)

CALORIES_MEAN_SPEED_MULTIPLIER == 18

CALORIES_MEAN_SPEED_SHIFT == Rat(179, 100)

WEIGHT_MULTIPLIER_ONE == Rat(35, 1000)

WEIGHT_MULTIPLIER_TWO == Rat(29, 1000)

MEAN_SPEED_DIV == Rat(36, 10)

SWIM_CALORIES_ADD == Rat(11, 10)

SWIM_CALORIES_MULTIPLIER == 2

MIN_IN_H == 60

---------------------------------------------------------------------------
(* Results of calls: a value, or the exception raised *)

Ok(v) == [exc |-> "none", val |-> v]

Raise(e) == [exc |-> e, val |-> <<0, 1>>]

NoTraining == [cls |-> "None"]

NoInfo == [training_type |-> "None"]

NoMessage == [training_type |-> "None"]

NoRet == [set |-> FALSE, val |-> <<0, 1>>]

Returned(v) == [set |-> TRUE, val |-> v]

NoPkg == [workout_type |-> "", data |-> <<>>]

---------------------------------------------------------------------------
(* class Training and its subclasses *)

\* Training.__init__ through Running.__init__: exactly three arguments
Running_init(data) ==
    IF Len(data) # 3 THEN Raise("TypeError")
    ELSE Ok([cls |-> "Running", action |-> data[1], duration |-> data[2],
             weight |-> data[3]])

\* SportsWalking.__init__: exactly four arguments
SportsWalking_init(data) ==
    IF Len(data) # 4 THEN Raise("TypeError")
    ELSE Ok([cls |-> "SportsWalking", action |-> data[1], duration |-> data[2],
             weight |-> data[3], height |-> data[4]])

\* Swimming.__init__(action, duration, weight, *args): reads args[0], args[1]
Swimming_init(data) ==
    IF Len(data) < 3 THEN Raise("TypeError")
    ELSE IF Len(data) < 5 THEN Raise("IndexError")
    ELSE Ok([cls |-> "Swimming", action |-> data[1], duration |-> data[2],
             weight |-> data[3], length_pool |-> data[4],
             count_pool |-> data[5]])

\* self.action * self.LEN_STEP / M_IN_KM
Training_get_distance(t) ==
    RatDiv(RatMul(FromInt(t.action), LEN_STEP(t.cls)), FromInt(M_IN_KM))

\* self.get_distance() / self.duration
Training_get_mean_speed(t) ==
    IF t.duration = 0 THEN Raise("ZeroDivisionError")
    ELSE Ok(RatDiv(Training_get_distance(t), FromInt(t.duration)))

\* a mutant of Swimming_get_mean_speed: the override is missing
Swimming_get_mean_speed_Inherited(t) == Training_get_mean_speed(t)

\* a mutant of Swimming_get_mean_speed: '-' typed for '*'
Swimming_get_mean_speed_Minus(t) ==
    IF t.duration = 0 THEN Raise("ZeroDivisionError")
    ELSE Ok(RatSub(FromInt(t.length_pool),
                   RatDiv(RatDiv(FromInt(t.count_pool), FromInt(M_IN_KM)),
                          FromInt(t.duration))))

\* self.length_pool * self.count_pool / M_IN_KM / self.duration
Swimming_get_mean_speed(t) ==
    IF t.duration = 0 THEN Raise("ZeroDivisionError")
    ELSE Ok(RatDiv(RatDiv(FromInt(t.length_pool * t.count_pool),
                          FromInt(M_IN_KM)),
                   FromInt(t.duration)))

\* the method get_mean_speed that an object of class t.cls has
get_mean_speed(t) ==
    IF t.cls = "Swimming" THEN Swimming_get_mean_speed(t)
    ELSE Training_get_mean_speed(t)

\* the mutant of Running_get_spent_calories: the hours are not turned to minutes
Running_get_spent_calories_Hours(t) ==
    LET s == get_mean_speed(t)
    IN  IF s.exc # "none" THEN s
        ELSE Ok(RatMul(RatDiv(RatMul(RatAdd(RatMul(
                    FromInt(CALORIES_MEAN_SPEED_MULTIPLIER), s.val),
                    CALORIES_MEAN_SPEED_SHIFT),
                    FromInt(t.weight)), FromInt(M_IN_KM)),
                    FromInt(t.duration)))

\* (18 * mean_speed + 1.79) * weight / M_IN_KM * duration * 60
Running_get_spent_calories(t) ==
    LET s == get_mean_speed(t)
    IN  IF s.exc # "none" THEN s
        ELSE Ok(RatMul(RatMul(RatDiv(RatMul(RatAdd(RatMul(
                    FromInt(CALORIES_MEAN_SPEED_MULTIPLIER), s.val),
                    CALORIES_MEAN_SPEED_SHIFT),
                    FromInt(t.weight)), FromInt(M_IN_KM)),
                    FromInt(t.duration)), FromInt(MIN_IN_H)))

\* (0.035 * weight + ((mean_speed / 3.6)**2 / height) * 0.029 * weight)
\*  * duration * 60
\* The product of the three factors is exact, so its grouping does not change
\* it; 0.029 * weight is taken first to keep the intermediate denominators
\* within TLC's 32-bit integers.
SportsWalking_get_spent_calories(t) ==
    LET s == get_mean_speed(t)
    IN  IF s.exc # "none" THEN s
        ELSE IF t.height = 0 THEN Raise("ZeroDivisionError")
        ELSE LET ms == RatDiv(s.val, MEAN_SPEED_DIV)
                 sq == RatDiv(RatMul(ms, ms), FromInt(t.height))
             IN  Ok(RatMul(RatMul(
                     RatAdd(RatMul(WEIGHT_MULTIPLIER_ONE, FromInt(t.weight)),
                            RatMul(sq, RatMul(WEIGHT_MULTIPLIER_TWO,
                                              FromInt(t.weight)))),
                     FromInt(t.duration)), FromInt(MIN_IN_H)))

\* the mutant of Swimming_get_spent_calories: the multiplier is left out
Swimming_get_spent_calories_NoMultiplier(t) ==
    LET s == get_mean_speed(t)
    IN  IF s.exc # "none" THEN s
        ELSE Ok(RatMul(RatMul(RatAdd(s.val, SWIM_CALORIES_ADD),
                              FromInt(t.weight)), FromInt(t.duration)))

\* (mean_speed + 1.1) * 2 * weight * duration
Swimming_get_spent_calories(t) ==
    LET s == get_mean_speed(t)
    IN  IF s.exc # "none" THEN s
        ELSE Ok(RatMul(RatMul(RatMul(RatAdd(s.val, SWIM_CALORIES_ADD),
                                     FromInt(SWIM_CALORIES_MULTIPLIER)),
                              FromInt(t.weight)), FromInt(t.duration)))

\* the method get_spent_calories that an object of class t.cls has
get_spent_calories(t) ==
    IF t.cls = "Running" THEN Running_get_spent_calories(t)
    ELSE IF t.cls = "SportsWalking" THEN SportsWalking_get_spent_calories(t)
    ELSE Swimming_get_spent_calories(t)

---------------------------------------------------------------------------
(* class InfoMessage *)

\* the mutant of InfoMessage_init: the duration is stored in minutes
InfoMessage_init_Minutes(training_type, t) ==
    LET s == get_mean_speed(t)
        c == get_spent_calories(t)
    IN  IF s.exc # "none" THEN [exc |-> s.exc, obj |-> NoInfo]
        ELSE IF c.exc # "none" THEN [exc |-> c.exc, obj |-> NoInfo]
        ELSE [exc |-> "none",
              obj |-> [training_type |-> training_type,
                       duration |-> t.duration * MIN_IN_H,
                       distance |-> Training_get_distance(t),
                       speed |-> s.val,
                       calories |-> c.val]]

\* InfoMessage.__init__(training_type, training_obj)
InfoMessage_init(training_type, t) ==
    LET s == get_mean_speed(t)
        c == get_spent_calories(t)
    IN  IF s.exc # "none" THEN [exc |-> s.exc, obj |-> NoInfo]
        ELSE IF c.exc # "none" THEN [exc |-> c.exc, obj |-> NoInfo]
        ELSE [exc |-> "none",
              obj |-> [training_type |-> training_type,
                       duration |-> t.duration,
                       distance |-> Training_get_distance(t),
                       speed |-> s.val,
                       calories |-> c.val]]

\* InfoMessage.get_message: the type and the four numbers to three decimals
get_message(m) ==
    [training_type |-> m.training_type,
     duration |-> Format3(FromInt(m.duration)),
     distance |-> Format3(m.distance),
     speed |-> Format3(m.speed),
     calories |-> Format3(m.calories)]

\* Training.show_training_info
show_training_info(t) == InfoMessage_init("My training", t)

---------------------------------------------------------------------------
(* read_package and main *)

trainings_dict ==
    ("RUN" :> "Running") @@ ("WLK" :> "SportsWalking") @@ ("SWM" :> "Swimming")

\* trainings_dict[workout_type](*data), and Swimming(*data)
Construct(cls, data) ==
    LET r == IF cls = "Running" THEN Running_init(data)
             ELSE IF cls = "SportsWalking" THEN SportsWalking_init(data)
             ELSE Swimming_init(data)
    IN  [exc |-> r.exc, obj |-> IF r.exc = "none" THEN r.val ELSE NoTraining]

read_package(workout_type, data) ==
    IF workout_type \in DOMAIN trainings_dict
    THEN Construct(trainings_dict[workout_type], data)
    ELSE Construct("Swimming", data)

\* main(training): the body is a docstring; what it leaves on standard output
main(out, t) == out

---------------------------------------------------------------------------
(* The inputs *)

Codes == {"RUN", "WLK", "SWM", "XYZ"}

Actions == {-720, 0, 720, 9000, 15000}

Durations == -1 .. MaxDuration

Weights == {75, 80}

\* the values of a data list's k-th element
Values(k) ==
    IF k = 1 THEN Actions
    ELSE IF k = 2 THEN Durations
    ELSE IF k = 3 THEN Weights
    ELSE IF k = 4 THEN {-25, 0, 25, 180}
    ELSE IF k = 5 THEN {-2, 0, 40}
    ELSE {7}

RECURSIVE Lists(_)
Lists(n) ==
    IF n = 0 THEN {<<>>}
    ELSE {Append(s, v) : s \in Lists(n - 1), v \in Values(n)}

DataLists == UNION {Lists(n) : n \in 2 .. MaxData}

\* the packages of the script (lines 274-278) among others
SamplePackages ==
    { [workout_type |-> "SWM", data |-> <<720, 1, 80, 25, 40>>],
      [workout_type |-> "RUN", data |-> <<15000, 1, 75>>],
      [workout_type |-> "WLK", data |-> <<9000, 1, 75, 180>>],
      [workout_type |-> "XYZ", data |-> <<720, 1, 80, 25, 40>>],
      [workout_type |-> "XYZ", data |-> <<15000, 1, 75>>],
      [workout_type |-> "RUN", data |-> <<9000, 2, 80>>],
      [workout_type |-> "WLK", data |-> <<9000, 1, 75>>] }

RECURSIVE PackageListsOf(_)
PackageListsOf(n) ==
    IF n = 0 THEN {<<>>}
    ELSE {Append(s, p) : s \in PackageListsOf(n - 1), p \in SamplePackages}

PackageLists == UNION {PackageListsOf(n) : n \in 0 .. MaxPackages}

---------------------------------------------------------------------------
(* Spec: the interface *)

NoRets == [distance |-> NoRet, mean_speed |-> NoRet, spent_calories |-> NoRet]

Init ==
    /\ pc = "start"
    /\ pkg = NoPkg
    /\ training = NoTraining
    /\ ret = NoRets
    /\ info = NoInfo
    /\ message = NoMessage
    /\ stdout = <<>>
    /\ err = "none"
    /\ packages = <<>>
    /\ i = 0

ReadPackage ==
    /\ pc = "start"
    /\ \E workout_type \in Codes, data \in DataLists :
          LET r == read_package(workout_type, data)
          IN  /\ pkg' = [workout_type |-> workout_type, data |-> data]
              /\ training' = r.obj
              /\ err' = r.exc
              /\ pc' = IF r.exc = "none" THEN "ready" ELSE "raised"
    /\ UNCHANGED <<ret, info, message, stdout, packages, i>>

GetDistance ==
    /\ pc = "ready"
    /\ ret' = [ret EXCEPT !.distance = Returned(Training_get_distance(training))]
    /\ UNCHANGED <<pc, pkg, training, info, message, stdout, err, packages, i>>

GetMeanSpeed ==
    /\ pc = "ready"
    /\ LET r == get_mean_speed(training)
       IN  IF r.exc = "none"
           THEN /\ ret' = [ret EXCEPT !.mean_speed = Returned(r.val)]
                /\ UNCHANGED <<pc, err>>
           ELSE /\ pc' = "raised"
                /\ err' = r.exc
                /\ UNCHANGED ret
    /\ UNCHANGED <<pkg, training, info, message, stdout, packages, i>>

GetSpentCalories ==
    /\ pc = "ready"
    /\ LET r == get_spent_calories(training)
       IN  IF r.exc = "none"
           THEN /\ ret' = [ret EXCEPT !.spent_calories = Returned(r.val)]
                /\ UNCHANGED <<pc, err>>
           ELSE /\ pc' = "raised"
                /\ err' = r.exc
                /\ UNCHANGED ret
    /\ UNCHANGED <<pkg, training, info, message, stdout, packages, i>>

ShowTrainingInfo ==
    /\ pc = "ready"
    /\ LET r == show_training_info(training)
       IN  IF r.exc = "none"
           THEN /\ info' = r.obj
                /\ UNCHANGED <<pc, err>>
           ELSE /\ pc' = "raised"
                /\ err' = r.exc
                /\ UNCHANGED info
    /\ UNCHANGED <<pkg, training, ret, message, stdout, packages, i>>

GetMessage ==
    /\ pc = "ready"
    /\ info # NoInfo
    /\ message' = get_message(info)
    /\ UNCHANGED <<pc, pkg, training, ret, info, stdout, err, packages, i>>

CallMain ==
    /\ pc = "ready"
    /\ stdout' = main(stdout, training)
    /\ UNCHANGED <<pc, pkg, training, ret, info, message, err, packages, i>>

Next ==
    \/ ReadPackage
    \/ GetDistance
    \/ GetMeanSpeed
    \/ GetSpentCalories
    \/ ShowTrainingInfo
    \/ GetMessage
    \/ CallMain

Spec == Init /\ [][Next]_vars

---------------------------------------------------------------------------
(* SpecMain: the script *)

InitMain ==
    /\ pc = "loop"
    /\ pkg = NoPkg
    /\ training = NoTraining
    /\ ret = NoRets
    /\ info = NoInfo
    /\ message = NoMessage
    /\ stdout = <<>>
    /\ err = "none"
    /\ packages \in PackageLists
    /\ i = 1

\* one pass of  for workout_type, data in packages:  the call of main is
\* commented out, so the body is the call of read_package alone
LoopBody ==
    /\ pc = "loop"
    /\ i <= Len(packages)
    /\ LET r == read_package(packages[i].workout_type, packages[i].data)
       IN  /\ pkg' = packages[i]
           /\ training' = IF r.exc = "none" THEN r.obj ELSE training
           /\ err' = r.exc
           /\ pc' = IF r.exc = "none" THEN "loop" ELSE "raised"
           /\ i' = IF r.exc = "none" THEN i + 1 ELSE i
    /\ UNCHANGED <<ret, info, message, stdout, packages>>

LoopEnd ==
    /\ pc = "loop"
    /\ i > Len(packages)
    /\ pc' = "done"
    /\ UNCHANGED <<pkg, training, ret, info, message, stdout, err, packages, i>>

NextMain ==
    \/ LoopBody
    \/ LoopEnd

SpecMain == InitMain /\ [][NextMain]_vars

---------------------------------------------------------------------------
(* The claims *)

KnownCodes == {"RUN", "WLK", "SWM"}

\* the modality the specification gives each code
KindOf == ("RUN" :> "Running") @@ ("WLK" :> "Walking") @@ ("SWM" :> "Swimming")

\* x is h hundredths to within one hundredth
ApproxHundredths(x, h) == Abs(x[1] * 100 - h * x[2]) <= x[2]

\* C1: for every code that is not one of RUN, WLK, SWM and every parameter
\* list, read_package fails with UnsupportedModality and returns no record.
C1_UnknownCodeFails ==
    (pc # "start" /\ pkg.workout_type \notin KnownCodes)
        => (err = "UnsupportedModality" /\ training = NoTraining)

\* C2: on a sample whose duration is not positive, no mean speed is
\* returned, no report is produced, and the only failure is InvalidInput
\* (in particular never a division by zero).
C2_NonPositiveDurationRejected ==
    (training # NoTraining /\ training.duration <= 0)
        => /\ ~ret.mean_speed.set
           /\ info = NoInfo
           /\ err \in {"none", "InvalidInput"}

\* C3: the report read_package and show_training_info yield for a known code
\* has the kind of that code's modality (Running, Walking, Swimming).
C3_ReportKindIsModality ==
    (info # NoInfo /\ pkg.workout_type \in KnownCodes)
        => info.training_type = KindOf[pkg.workout_type]

\* C4: while the script processes its packages, after n samples exactly n
\* report lines have been emitted.
C4_OneLinePerSample ==
    pc \in {"loop", "done"} => Len(stdout) = i - 1

\* the Running sample of the specification, reported
C5_Sample ==
    /\ training = [cls |-> "Running", action |-> 15000, duration |-> 1,
                   weight |-> 75]
    /\ info # NoInfo

\* (18 * avgSpeedKmh + 1.79) * weightKg / 1000 * durationHours * 60
C5_Formula(speed, weight, duration) ==
    RatMul(RatMul(RatDiv(RatMul(RatAdd(RatMul(<<18, 1>>, speed), <<179, 100>>),
                                <<weight, 1>>), <<1000, 1>>),
                  <<duration, 1>>), <<60, 1>>)

\* C5 as stated: Running(15000, 1, 75) reports distance 9.750 km, speed
\* 9.750 km/h and calories approximately 687.79, the value of the formula.
C5_Original ==
    C5_Sample
        => /\ info.distance = <<39, 4>>
           /\ info.speed = <<39, 4>>
           /\ ApproxHundredths(info.calories, 68779)
           /\ info.calories = C5_Formula(info.speed, 75, 1)

\* C5 as amended: Running(15000, 1, 75) reports distance 9.750 km, speed
\* 9.750 km/h and calories 797.805 (approximately 797.81), the value of the
\* formula; get_message prints 9.750, 9.750 and 797.805.
C5_RunningExample ==
    C5_Sample
        => /\ info.distance = <<39, 4>>
           /\ info.speed = <<39, 4>>
           /\ ApproxHundredths(info.calories, 79781)
           /\ info.calories = <<159561, 200>>
           /\ info.calories = C5_Formula(info.speed, 75, 1)
           /\ (message # NoMessage
                 => /\ message.distance = 9750
                    /\ message.speed = 9750
                    /\ message.calories = 797805)

C5_Witness == C5_Sample /\ message # NoMessage

\* the Swimming sample of the specification, reported
C6_Sample ==
    /\ training = [cls |-> "Swimming", action |-> 720, duration |-> 1,
                   weight |-> 80, length_pool |-> 25, count_pool |-> 40]
    /\ info # NoInfo

\* (avgSpeedKmh + 1.1) * 2 * weightKg * durationHours
C6_Formula(speed, weight, duration) ==
    RatMul(RatMul(RatMul(RatAdd(speed, <<11, 10>>), <<2, 1>>), <<weight, 1>>),
           <<duration, 1>>)

\* C6 as stated: Swimming(720, 1, 80, 25, 40) reports speed 1.000 km/h and
\* calories approximately 168.00, the value of the formula.
C6_Original ==
    C6_Sample
        => /\ info.speed = <<1, 1>>
           /\ ApproxHundredths(info.calories, 16800)
           /\ info.calories = C6_Formula(info.speed, 80, 1)

\* C6 as amended: Swimming(720, 1, 80, 25, 40) reports speed 1.000 km/h and
\* calories 336.000, the value of the formula; get_message prints 1.000 and
\* 336.000.
C6_SwimmingExample ==
    C6_Sample
        => /\ info.speed = <<1, 1>>
           /\ ApproxHundredths(info.calories, 33600)
           /\ info.calories = <<336, 1>>
           /\ info.calories = C6_Formula(info.speed, 80, 1)
           /\ (message # NoMessage
                 => /\ message.speed = 1000
                    /\ message.calories = 336000)

C6_Witness == C6_Sample /\ message # NoMessage

\* the reported calories of a Walking sample, per minute, less 0.035 * weight,
\* over 0.029 * weight: the term the formula writes
\* (avgSpeedKmh * 0.278)^2 / (heightCm / 100)
C7_SpeedHeightTerm ==
    RatDiv(RatSub(RatDiv(info.calories, <<training.duration * 60, 1>>),
                  RatMul(<<35, 1000>>, <<training.weight, 1>>)),
           RatMul(<<29, 1000>>, <<training.weight, 1>>))

\* C7: the calories of every Walking sample with duration > 0 equal
\* (0.035 * w + (v * 0.278)^2 / (h / 100) * 0.029 * w) * duration * 60.
\* With w # 0 and duration # 0 this is
\*     C7_SpeedHeightTerm = (v * 0.278)^2 / (h / 100),
\* and with v # 0, multiplying by h and dividing by v^2,
\*     C7_SpeedHeightTerm * h / v^2 = 0.278^2 * 100 = 19321 / 2500,
\* the form checked (its numbers fit TLC's integers); with v = 0 it is
\* C7_SpeedHeightTerm = 0.  For (9000, 1, 75, 180) the distance and the speed
\* are 5.850.  Stated of the samples with action >= 0, weight > 0 and
\* height > 0, the ones a sensor can send.
C7_WalkingFormula ==
    (/\ info # NoInfo
     /\ training.cls = "SportsWalking"
     /\ training.duration > 0
     /\ training.action >= 0
     /\ training.weight > 0
     /\ training.height > 0)
        => /\ IF info.speed[1] = 0
              THEN C7_SpeedHeightTerm = <<0, 1>>
              ELSE RatDiv(RatMul(C7_SpeedHeightTerm, <<training.height, 1>>),
                          RatMul(info.speed, info.speed)) = <<19321, 2500>>
           /\ (training.action = 9000 /\ training.duration = 1
                 => info.distance = <<117, 20>> /\ info.speed = <<117, 20>>)

\* C8: for duration > 0 the distance is action * 0.65 / 1000 (Running,
\* Walking) or action * 1.38 / 1000 (Swimming); the speed of Running and
\* Walking is the distance over the duration; the speed of Swimming is
\* poolLength * poolLaps / 1000 / duration, whatever the action and the
\* distance are.  Each equation is cross-multiplied to integers.
C8_DistanceAndSpeed ==
    (training # NoTraining /\ training.duration > 0)
        => LET step == IF training.cls = "Swimming" THEN 138 ELSE 65
               d    == ret.distance.val
               s    == ret.mean_speed.val
           IN  /\ ret.distance.set
                    => d[1] * 100000 = training.action * step * d[2]
               /\ (ret.mean_speed.set /\ training.cls # "Swimming")
                    => /\ s[1] * 100000 * training.duration
                            = training.action * 65 * s[2]
                       /\ ret.distance.set
                            => s[1] * training.duration * d[2] = d[1] * s[2]
               /\ (ret.mean_speed.set /\ training.cls = "Swimming")
                    => s[1] * 1000 * training.duration
                         = training.length_pool * training.count_pool * s[2]

\* a Swimming training whose returned speed is not its distance over its
\* duration
C8_Witness ==
    /\ training # NoTraining
    /\ training.cls = "Swimming"
    /\ training.duration > 0
    /\ ret.distance.set
    /\ ret.mean_speed.set
    /\ ret.mean_speed.val[1] * training.duration * ret.distance.val[2]
          # ret.distance.val[1] * ret.mean_speed.val[2]

C9_Positive ==
    /\ info # NoInfo
    /\ training.action > 0
    /\ training.duration > 0
    /\ training.weight > 0

\* C9 as stated: for positive action, duration and weight, and any pool
\* length and lap count, the reported distance and speed are >= 0.
C9_Original ==
    C9_Positive => RatNonNeg(info.distance) /\ RatNonNeg(info.speed)

\* C9 as amended: for positive action, duration and weight the reported
\* distance is >= 0; the reported speed is >= 0 for Running and Walking, and
\* for Swimming exactly when poolLength * poolLaps >= 0.
C9_NonNegative ==
    C9_Positive
        => /\ RatNonNeg(info.distance)
           /\ training.cls # "Swimming" => RatNonNeg(info.speed)
           /\ training.cls = "Swimming"
                => (RatNonNeg(info.speed)
                      <=> training.length_pool * training.count_pool >= 0)

\* a Swimming report with a pool length and a lap count that are not positive
C9_Witness ==
    /\ C9_Positive
    /\ training.cls = "Swimming"
    /\ training.length_pool <= 0
    /\ training.count_pool <= 0

Methods == {"distance", "mean_speed", "spent_calories"}

\* C10: no call changes the training's fields; a method returns on every
\* repetition the value it returned before; an InfoMessage, once produced, is
\* not changed (by get_message or any other call); and its duration,
\* distance, speed and calories are the training's duration and the values
\* its methods return.
C10_Frame ==
    /\ [][training # NoTraining => training' = training]_vars
    /\ [][\A m \in Methods : ret[m].set => ret'[m] = ret[m]]_vars
    /\ [][info # NoInfo => info' = info]_vars
    /\ [](info # NoInfo
            => /\ info.duration = training.duration
               /\ ret.distance.set => info.distance = ret.distance.val
               /\ ret.mean_speed.set => info.speed = ret.mean_speed.val
               /\ ret.spent_calories.set
                    => info.calories = ret.spent_calories.val)

C10_Witness ==
    /\ info # NoInfo
    /\ message # NoMessage
    /\ \A m \in Methods : ret[m].set

====
